---- MODULE Spec2Model ----
(***************************************************************************)
(* Model of the viewer aggregation of grosbeak: get_viewer_data and its    *)
(* helpers (src/grosbeak/routers/api.py) over the collection registry      *)
(* (src/grosbeak/db.py).  One behaviour is one call of get_viewer_data on  *)
(* one database snapshot and one set of query options.                     *)
(***************************************************************************)
EXTENDS Integers, Sequences, FiniteSets, TLC

VARIABLES
    db,        \* the event database: collection name -> the documents find() yields, in order
    opts,      \* the query parameters of the call
    ci,        \* how many entries of COLLECTIONS.items() the outer loop has taken
    cursor,    \* the documents of the current collection's cursor not yet iterated
    data,      \* the local `data` of get_viewer_data
    pc,        \* "loop" while the call runs, "returned" or "raised" once it has ended
    returned,  \* <<>> until the call returns; then <<data>>
    error,     \* the exception that left the call, NoError while there is none
    cur,       \* the collection and the document (as stored) of the make_key call that raised
    fetched,   \* history: the collections find() was called on, in call order
    merged     \* history: <<collection, document as stored>> of every document merged, in order

vars == <<db, opts, ci, cursor, data, pc, returned, error, cur, fetched, merged>>

-----------------------------------------------------------------------------
(* Bounds *)

\* The largest number of documents in the database of a merge scenario.
MaxDocs == 2

-----------------------------------------------------------------------------
(* Registry: src/grosbeak/db.py *)

\* COLLECTIONS, as the ordered (collection, type) pairs dict.items() yields.
COLLECTIONS ==
    << <<"raw_obj_pit", "team">>,
       <<"tba_tim", "tim">>,
       <<"obj_tim", "tim">>,
       <<"obj_team", "team">>,
       <<"subj_team", "team">>,
       <<"predicted_aim", "aim">>,
       <<"predicted_team", "team">>,
       <<"tba_team", "team">>,
       <<"pickability", "team">>,
       <<"picklist", "team">>,
       <<"predicted_alliances", "alliance">>,
       <<"auto_paths", "auto_paths">>,
       <<"subj_tim", "tim">> >>

COLLECTION_KEYS ==
    [team       |-> <<"team_number">>,
     tim        |-> <<"match_number", "team_number">>,
     aim        |-> <<"match_number", "alliance_color_is_red">>,
     alliance   |-> <<"alliance_num">>,
     auto_paths |-> <<"team_number", "path_number">>]

DocumentTypes == DOMAIN COLLECTION_KEYS

CollectionNames == {COLLECTIONS[i][1] : i \in DOMAIN COLLECTIONS}

\* COLLECTIONS[collection]
TypeOf(collection) ==
    COLLECTIONS[CHOOSE i \in DOMAIN COLLECTIONS :
                    COLLECTIONS[i][1] = collection][2]

-----------------------------------------------------------------------------
(* Python values.  t is the Python type; n, s and l carry the payload.     *)

IntV(n)   == [t |-> "int",   n |-> n, s |-> "",  l |-> <<>>]
StrV(s)   == [t |-> "str",   n |-> 0, s |-> s,   l |-> <<>>]
BoolV(b)  == [t |-> "bool",  n |-> IF b THEN 1 ELSE 0, s |-> "", l |-> <<>>]
NoneV     == [t |-> "none",  n |-> 0, s |-> "",  l |-> <<>>]
\* a float: s is "nan", "inf", "-inf", or "fin" for the finite float n.0
FloatV(s, n) == [t |-> "float", n |-> n, s |-> s, l |-> <<>>]
ListV(l)  == [t |-> "list",  n |-> 0, s |-> "",  l |-> l]
\* a bson ObjectId with hex string s
OidV(s)   == [t |-> "oid",   n |-> 0, s |-> s,   l |-> <<>>]

Digit(d) ==
    CASE d = 0 -> "0" [] d = 1 -> "1" [] d = 2 -> "2" [] d = 3 -> "3"
      [] d = 4 -> "4" [] d = 5 -> "5" [] d = 6 -> "6" [] d = 7 -> "7"
      [] d = 8 -> "8" [] d = 9 -> "9"

RECURSIVE IntToStr(_)
IntToStr(n) ==
    IF n < 10 THEN Digit(n) ELSE IntToStr(n \div 10) \o Digit(n % 10)

RECURSIVE JoinInts(_)
JoinInts(l) ==
    IF l = <<>> THEN ""
    ELSE IF Len(l) = 1 THEN IntToStr(l[1])
    ELSE IntToStr(l[1]) \o ", " \o JoinInts(Tail(l))

\* str(v)
PyStr(v) ==
    CASE v.t = "int"   -> IntToStr(v.n)
      [] v.t = "str"   -> v.s
      [] v.t = "bool"  -> IF v.n = 1 THEN "True" ELSE "False"
      [] v.t = "none"  -> "None"
      [] v.t = "float" -> IF v.s = "fin" THEN IntToStr(v.n) \o ".0" ELSE v.s
      [] v.t = "list"  -> "[" \o JoinInts(v.l) \o "]"
      [] v.t = "oid"   -> v.s

\* the truth value of v in `if v:`
Truthy(v) ==
    CASE v.t = "int"   -> v.n # 0
      [] v.t = "str"   -> v.s # ""
      [] v.t = "bool"  -> v.n = 1
      [] v.t = "none"  -> FALSE
      [] v.t = "float" -> ~(v.s = "fin" /\ v.n = 0)
      [] v.t = "list"  -> v.l # <<>>
      [] v.t = "oid"   -> TRUE

\* isinstance(v, (float, int, str, bool, type(None)))
IsPrimitive(v) == v.t \in {"float", "int", "str", "bool", "none"}

\* isinstance(v, numbers.Number)
IsNumber(v) == v.t \in {"float", "int", "bool"}

\* math.isnan(v), v a number
IsNan(v) == v.t = "float" /\ v.s = "nan"

-----------------------------------------------------------------------------
(* Python dicts: functions over the set of their keys *)

EmptyDict == [k \in {} |-> NoneV]

\* d.pop(k) with k present, and d.pop(k, None)
Pop(d, k) == [f \in DOMAIN d \ {k} |-> d[f]]

\* d[k] = v
Put(d, k, v) == [f \in DOMAIN d \cup {k} |-> IF f = k THEN v ELSE d[f]]

\* a.update(b) with the fields of a kept where both have one
DictUpdateKeepingOld(a, b) ==
    [f \in DOMAIN a \cup DOMAIN b |-> IF f \in DOMAIN a THEN a[f] ELSE b[f]]

\* a.update(b)
DictUpdate(a, b) ==
    [f \in DOMAIN a \cup DOMAIN b |-> IF f \in DOMAIN b THEN b[f] ELSE a[f]]

\* An optional query list: None, or the list of its items (membership only).
NoneOpt == [none |-> TRUE, items |-> {}]
ListOpt(items) == [none |-> FALSE, items |-> items]

NoError == [exc |-> "", args |-> <<>>]
NoCur == <<>>

-----------------------------------------------------------------------------
(* Helpers of src/grosbeak/routers/api.py *)

\* The loop of make_key over the headers still to take.  A missing header
\* raises KeyError(header) out of document[header].
RECURSIVE make_key_loop(_, _, _)

\* The loop of make_key with str() for alliance_color_is_red as well.
make_key_loop_str(headers, keys, document) ==
    IF headers = <<>>
    THEN [raised |-> FALSE, keys |-> keys, document |-> document,
          error |-> NoError]
    ELSE LET header == Head(headers) IN
         IF header \notin DOMAIN document
         THEN [raised |-> TRUE, keys |-> keys, document |-> document,
               error |-> [exc |-> "KeyError", args |-> <<header>>]]
         ELSE make_key_loop(Tail(headers),
                            Append(keys, PyStr(document[header])),
                            Pop(document, header))

make_key_loop(headers, keys, document) ==
    IF headers = <<>>
    THEN [raised |-> FALSE, keys |-> keys, document |-> document,
          error |-> NoError]
    ELSE LET header == Head(headers) IN
         IF header \notin DOMAIN document
         THEN [raised |-> TRUE, keys |-> keys, document |-> document,
               error |-> [exc |-> "KeyError", args |-> <<header>>]]
         ELSE LET key == IF header = "alliance_color_is_red"
                         THEN (IF Truthy(document["alliance_color_is_red"])
                               THEN "red" ELSE "blue")
                         ELSE PyStr(document[header])
              IN make_key_loop(Tail(headers), Append(keys, key),
                               Pop(document, header))

\* make_key with an error that names the document type as well.
make_key_naming_type(collection_type, document) ==
    LET made == make_key_loop(COLLECTION_KEYS[collection_type], <<>>, document)
    IN IF made.raised
       THEN [made EXCEPT !.error.args = <<collection_type>> \o @]
       ELSE made

\* make_key(collection_type, document): the keys, and the document with the
\* key fields popped; or the KeyError that leaves it.
make_key(collection_type, document) ==
    make_key_loop(COLLECTION_KEYS[collection_type], <<>>, document)

\* A dict or None, as get_by_path passes it along.
NoneNode == [some |-> FALSE, node |-> EmptyDict]
SomeNode(d) == [some |-> TRUE, node |-> d]

\* lambda d, key: d.get(key) if d else None
get_step(d, key) ==
    IF d.some /\ DOMAIN d.node # {}
    THEN (IF key \in DOMAIN d.node THEN SomeNode(d.node[key]) ELSE NoneNode)
    ELSE NoneNode

RECURSIVE get_reduce(_, _)
get_reduce(d, path) ==
    IF path = <<>> THEN d ELSE get_reduce(get_step(d, Head(path)), Tail(path))

\* get_by_path that finds nothing
get_by_path_none(dictionary, path) == NoneNode

\* get_by_path(dictionary, path)
get_by_path(dictionary, path) == get_reduce(SomeNode(dictionary), path)

\* set_by_path(dictionary, path, value): setdefault along path[:-1], then
\* the assignment at path[-1]; the dictionary as it is afterwards.
RECURSIVE set_by_path(_, _, _)
set_by_path(dictionary, path, value) ==
    IF Len(path) = 1
    THEN Put(dictionary, path[1], value)
    ELSE LET child == IF path[1] \in DOMAIN dictionary
                      THEN dictionary[path[1]] ELSE EmptyDict
         IN Put(dictionary, path[1], set_by_path(child, Tail(path), value))

\* The dictionary after the dict object reached by path (which exists) has
\* been mutated in place to `value`: what common_doc.update does to data.
RECURSIVE mutate_at(_, _, _)
mutate_at(dictionary, path, value) ==
    IF path = <<>> THEN value
    ELSE [dictionary EXCEPT
             ![path[1]] = mutate_at(dictionary[path[1]], Tail(path), value)]

\* serialize_viewer_document that keeps _id
serialize_viewer_document_keep(document) == document

\* serialize_viewer_document(document)
serialize_viewer_document(document) == Pop(document, "_id")

\* `x is not None and c in x` of an optional query list
InList(x, c) == ~x.none /\ c \in x.items

\* The stringification without the check of ignored_to_string_datapoints.
stringify_every_datapoint(sanitized, collection, o) ==
    IF o.use_strings /\ (o.ignored_to_string_collections.none
                         \/ collection \notin o.ignored_to_string_collections.items)
    THEN [k \in DOMAIN sanitized |->
            IF ~IsPrimitive(sanitized[k]) THEN StrV(PyStr(sanitized[k]))
            ELSE sanitized[k]]
    ELSE sanitized

\* Lines 195-207: the stringification of the non-primitive datapoints.
stringify(sanitized, collection, o) ==
    IF o.use_strings /\ (o.ignored_to_string_collections.none
                         \/ collection \notin o.ignored_to_string_collections.items)
    THEN [k \in DOMAIN sanitized |->
            IF InList(o.ignored_to_string_datapoints, k) THEN sanitized[k]
            ELSE IF ~IsPrimitive(sanitized[k]) THEN StrV(PyStr(sanitized[k]))
            ELSE sanitized[k]]
    ELSE sanitized

\* Lines 208-212: a NaN number becomes None.
nan_to_none(sanitized) ==
    [k \in DOMAIN sanitized |->
        IF IsNumber(sanitized[k]) /\ IsNan(sanitized[k]) THEN NoneV
        ELSE sanitized[k]]

\* Lines 194-212: what is merged for a document whose keys are popped.
sanitize(doc, collection, o) ==
    nan_to_none(stringify(serialize_viewer_document(doc), collection, o))

\* Lines 185-214, the body of the inner loop for one document whose make_key
\* did not raise: the value of data[collection_type] afterwards.
merge_doc(tree, key, doc, collection, o) ==
    LET found      == get_by_path(tree, key)
        created    == IF ~found.some
                      THEN set_by_path(tree, key, EmptyDict) ELSE tree
        common_doc == IF ~found.some THEN EmptyDict ELSE found.node
    IN mutate_at(created, key,
                 DictUpdate(common_doc, sanitize(doc, collection, o)))

\* Line 181 without the skip.
is_ignored_never(collection, o) == FALSE

\* Line 181: the collection is skipped.
is_ignored(collection, o) == InList(o.ignored_collections, collection)

-----------------------------------------------------------------------------
(* The inputs of a call: database snapshots and query options *)

Doc1(f, v) == f :> v
Id(s) == "_id" :> OidV(s)

\* Documents a collection of each type may hold in a merge scenario: equal
\* and different keys, int and str renderings of one key, overlapping and
\* disjoint datapoints, no datapoint at all, and documents that lack a key.
MergePool ==
    [team |->
        { Doc1("team_number", IntV(254)) @@ Id("a1") @@ Doc1("opr", IntV(10)),
          Doc1("team_number", StrV("254")) @@ Doc1("name", ListV(<<1, 2>>)),
          Doc1("team_number", IntV(254)) @@ Doc1("opr", IntV(20)),
          Doc1("team_number", IntV(254)),
          Doc1("team_number", IntV(1678)) @@ Doc1("name", StrV("Cheesy")),
          Id("a2") @@ Doc1("opr", IntV(10)) },
     tim |->
        { Doc1("match_number", IntV(1)) @@ Doc1("team_number", IntV(254))
              @@ Id("b1") @@ Doc1("opr", IntV(10)),
          Doc1("match_number", IntV(1)) @@ Doc1("team_number", IntV(254))
              @@ Doc1("name", StrV("Cheesy")),
          Doc1("match_number", IntV(1)) @@ Doc1("team_number", IntV(1678))
              @@ Doc1("opr", IntV(20)),
          Doc1("match_number", IntV(1)) @@ Doc1("opr", IntV(10)) },
     aim |->
        { Doc1("match_number", IntV(1))
              @@ Doc1("alliance_color_is_red", BoolV(TRUE))
              @@ Doc1("opr", IntV(10)),
          Doc1("match_number", IntV(1))
              @@ Doc1("alliance_color_is_red", BoolV(FALSE))
              @@ Doc1("opr", IntV(20)),
          Doc1("alliance_color_is_red", BoolV(TRUE)) @@ Id("c1") },
     alliance |->
        { Doc1("alliance_num", IntV(1)) @@ Doc1("opr", IntV(10)),
          Doc1("name", StrV("Cheesy")) },
     auto_paths |->
        { Doc1("team_number", IntV(254)) @@ Doc1("path_number", IntV(1))
              @@ Doc1("opr", IntV(10)),
          Doc1("team_number", IntV(254)) @@ Doc1("path_number", IntV(2))
              @@ Doc1("name", StrV("Cheesy")),
          Id("e1") }]

\* The collections that hold documents in a merge scenario; every other
\* collection of the registry exists and is empty.
MergeCollections ==
    {"raw_obj_pit", "tba_tim", "obj_team", "predicted_aim",
     "predicted_alliances", "auto_paths", "subj_tim"}

Placements ==
    UNION {{<<c, d>> : d \in MergePool[TypeOf(c)]} : c \in MergeCollections}

\* The database that holds the placed documents, each collection in the
\* order of the placement.
RECURSIVE DocsOf(_, _)
DocsOf(seq, c) ==
    IF seq = <<>> THEN <<>>
    ELSE IF Head(seq)[1] = c THEN <<Head(seq)[2]>> \o DocsOf(Tail(seq), c)
    ELSE DocsOf(Tail(seq), c)

DatabaseOf(seq) == [c \in CollectionNames |-> DocsOf(seq, c)]

MergeDatabases ==
    {DatabaseOf(seq) : seq \in UNION {[1..n -> Placements] : n \in 0..MaxDocs}}

MergeOptions ==
    [use_strings : BOOLEAN,
     ignored_collections :
        {NoneOpt, ListOpt({"obj_team"}),
         ListOpt({"raw_obj_pit", "tba_tim", "not_a_collection"})},
     ignored_to_string_datapoints : {NoneOpt},
     ignored_to_string_collections : {NoneOpt}]

\* The values of a datapoint in a sanitization scenario.
SanValues ==
    {IntV(10), StrV("x"), BoolV(TRUE), NoneV, FloatV("fin", 1),
     FloatV("nan", 0), FloatV("inf", 0), FloatV("-inf", 0),
     ListV(<<1, 2>>), OidV("d1")}

SanDocs ==
    {Doc1("team_number", IntV(254)) @@ Doc1("opr", v) @@ Doc1("name", w) :
        v \in SanValues, w \in SanValues}

SanCollections == {"obj_team", "tba_team"}

SanDatabases ==
    {[c \in CollectionNames |-> IF c = sc THEN <<d>> ELSE <<>>] :
        sc \in SanCollections, d \in SanDocs}

SanOptions ==
    [use_strings : BOOLEAN,
     ignored_collections : {NoneOpt},
     ignored_to_string_datapoints : {NoneOpt, ListOpt({"name"})},
     ignored_to_string_collections : {NoneOpt, ListOpt({"tba_team"})}]

-----------------------------------------------------------------------------
(* get_viewer_data, step by step *)

EmptyData == [collection_type \in DocumentTypes |-> EmptyDict]

Init ==
    /\ \/ db \in MergeDatabases /\ opts \in MergeOptions
       \/ db \in SanDatabases /\ opts \in SanOptions
    /\ ci = 0
    /\ cursor = <<>>
    /\ data = EmptyData
    /\ pc = "loop"
    /\ returned = <<>>
    /\ error = NoError
    /\ cur = NoCur
    /\ fetched = <<>>
    /\ merged = <<>>

\* Lines 180-182: the next collection is in ignored_collections.
SkipIgnored ==
    /\ pc = "loop" /\ cursor = <<>> /\ ci < Len(COLLECTIONS)
    /\ is_ignored(COLLECTIONS[ci + 1][1], opts)
    /\ ci' = ci + 1
    /\ UNCHANGED <<db, opts, cursor, data, pc, returned, error, cur,
                   fetched, merged>>

\* The next collection read with two find() calls.
FindTwice ==
    /\ pc = "loop" /\ cursor = <<>> /\ ci < Len(COLLECTIONS)
    /\ ~is_ignored(COLLECTIONS[ci + 1][1], opts)
    /\ ci' = ci + 1
    /\ cursor' = db[COLLECTIONS[ci + 1][1]]
    /\ fetched' = fetched \o <<COLLECTIONS[ci + 1][1], COLLECTIONS[ci + 1][1]>>
    /\ UNCHANGED <<db, opts, data, pc, returned, error, cur, merged>>

\* Lines 180-183: the next collection is not ignored; find() opens its cursor.
Find ==
    /\ pc = "loop" /\ cursor = <<>> /\ ci < Len(COLLECTIONS)
    /\ ~is_ignored(COLLECTIONS[ci + 1][1], opts)
    /\ ci' = ci + 1
    /\ cursor' = db[COLLECTIONS[ci + 1][1]]
    /\ fetched' = Append(fetched, COLLECTIONS[ci + 1][1])
    /\ UNCHANGED <<db, opts, data, pc, returned, error, cur, merged>>

\* Lines 184-214: the next document of the cursor; make_key returns.
MergeDocument ==
    /\ pc = "loop" /\ cursor # <<>>
    /\ LET collection      == COLLECTIONS[ci][1]
           collection_type == COLLECTIONS[ci][2]
           made            == make_key(collection_type, Head(cursor))
       IN /\ ~made.raised
          /\ data' = [data EXCEPT ![collection_type] =
                         merge_doc(data[collection_type], made.keys,
                                   made.document, collection, opts)]
          /\ merged' = Append(merged, <<collection, Head(cursor)>>)
    /\ cursor' = Tail(cursor)
    /\ UNCHANGED <<db, opts, ci, pc, returned, error, cur, fetched>>

\* The KeyError caught, and the data built so far returned.
CatchKeyError ==
    /\ pc = "loop" /\ cursor # <<>>
    /\ make_key(COLLECTIONS[ci][2], Head(cursor)).raised
    /\ pc' = "returned"
    /\ returned' = <<data>>
    /\ UNCHANGED <<db, opts, ci, cursor, data, error, cur, fetched, merged>>

\* Lines 184-185: the next document of the cursor; make_key raises, and
\* nothing in get_viewer_data catches it.
RaiseKeyError ==
    /\ pc = "loop" /\ cursor # <<>>
    /\ LET collection      == COLLECTIONS[ci][1]
           collection_type == COLLECTIONS[ci][2]
           made            == make_key(collection_type, Head(cursor))
       IN /\ made.raised
          /\ error' = made.error
          /\ cur' = <<collection, Head(cursor)>>
    /\ pc' = "raised"
    /\ UNCHANGED <<db, opts, ci, cursor, data, returned, fetched, merged>>

\* Line 215: the loop is over.
Return ==
    /\ pc = "loop" /\ cursor = <<>> /\ ci = Len(COLLECTIONS)
    /\ pc' = "returned"
    /\ returned' = <<data>>
    /\ UNCHANGED <<db, opts, ci, cursor, data, error, cur, fetched, merged>>

Next == SkipIgnored \/ Find \/ MergeDocument \/ RaiseKeyError \/ Return

Spec == Init /\ [][Next]_vars

-----------------------------------------------------------------------------
(* get_viewer_data as one function of the database and the options: the    *)
(* same loops, run to the end, for comparing two calls.                    *)

\* Lines 184-214 over the documents of one cursor, from the data so far.
RECURSIVE merge_cursor(_, _, _, _)
merge_cursor(d, collection, docs, o) ==
    IF docs = <<>> THEN [raised |-> FALSE, data |-> d, error |-> NoError]
    ELSE LET collection_type == TypeOf(collection)
             made == make_key(collection_type, Head(docs))
         IN IF made.raised
            THEN [raised |-> TRUE, data |-> d, error |-> made.error]
            ELSE merge_cursor(
                     [d EXCEPT ![collection_type] =
                         merge_doc(d[collection_type], made.keys,
                                   made.document, collection, o)],
                     collection, Tail(docs), o)

\* Lines 180-214 from entry i of COLLECTIONS.items() on.
RECURSIVE merge_collections(_, _, _, _)
merge_collections(i, d, database, o) ==
    IF i > Len(COLLECTIONS) THEN [raised |-> FALSE, data |-> d, error |-> NoError]
    ELSE LET collection == COLLECTIONS[i][1] IN
         IF is_ignored(collection, o)
         THEN merge_collections(i + 1, d, database, o)
         ELSE LET r == merge_cursor(d, collection, database[collection], o)
              IN IF r.raised THEN r
                 ELSE merge_collections(i + 1, r.data, database, o)

\* get_viewer_data on `database` with options o: the ViewerData returned, or
\* the exception raised.
get_viewer_data(database, o) == merge_collections(1, EmptyData, database, o)

\* The step-by-step call ends as the function says.
StepwiseAgrees ==
    /\ pc = "returned" =>
         /\ ~get_viewer_data(db, opts).raised
         /\ returned[1] = get_viewer_data(db, opts).data
    /\ pc = "raised" =>
         /\ get_viewer_data(db, opts).raised
         /\ error = get_viewer_data(db, opts).error
         /\ data = get_viewer_data(db, opts).data

-----------------------------------------------------------------------------
(* Vocabulary of the properties *)

KeyFields(type) ==
    {COLLECTION_KEYS[type][i] : i \in DOMAIN COLLECTION_KEYS[type]}

\* The datapoints of a stored document: its fields that are neither key
\* fields of its type nor _id.
Datapoints(type, doc) == DOMAIN doc \ (KeyFields(type) \cup {"_id"})

Depth(type) == Len(COLLECTION_KEYS[type])

\* The paths of length n in a nested mapping.
RECURSIVE PathsAtDepth(_, _)
PathsAtDepth(tree, n) ==
    IF n = 0 THEN {<<>>}
    ELSE UNION {{<<k>> \o p : p \in PathsAtDepth(tree[k], n - 1)} :
                   k \in DOMAIN tree}

RECURSIVE NodeAt(_, _)
NodeAt(tree, path) ==
    IF path = <<>> THEN tree ELSE NodeAt(tree[Head(path)], Tail(path))

LeafPaths(view, type) == PathsAtDepth(view[type], Depth(type))

\* The merged documents (positions in the history) that mapped to a path.
MergedAt(type, path) ==
    {i \in DOMAIN merged :
        /\ TypeOf(merged[i][1]) = type
        /\ make_key(type, merged[i][2]).keys = path}

\* Those of them that contained datapoint X.
Writers(type, path, X) ==
    {i \in MergedAt(type, path) : X \in Datapoints(type, merged[i][2])}

Last(S) == CHOOSE m \in S : \A x \in S : x <= m

\* The sanitized value of datapoint X of merged document i.
SanitizedValue(i, X) ==
    sanitize(make_key(TypeOf(merged[i][1]), merged[i][2]).document,
             merged[i][1], opts)[X]

Ignored == opts.ignored_collections.items

Tag(c, docs) == [i \in 1..Len(docs) |-> <<c, docs[i]>>]

\* The documents of the collections that are not ignored, in registry order
\* across collections and fetch order within one, from registry entry i on.
RECURSIVE RegistryOrder(_)
RegistryOrder(i) ==
    IF i > Len(COLLECTIONS) THEN <<>>
    ELSE (IF COLLECTIONS[i][1] \in Ignored THEN <<>>
          ELSE Tag(COLLECTIONS[i][1], db[COLLECTIONS[i][1]]))
         \o RegistryOrder(i + 1)

IsPrefix(a, b) == Len(a) <= Len(b) /\ SubSeq(b, 1, Len(a)) = a

-----------------------------------------------------------------------------
(* C1: precedence by registry order *)

\* C1: documents are processed in COLLECTIONS order across collections and in
\* fetch order within one collection, and in the returned view every field X
\* of every leaf has the sanitized value of X of the last processed document
\* that mapped to the leaf's (type, key path) and contained X.
C1_Precedence ==
    /\ IsPrefix(merged, RegistryOrder(1))
    /\ pc = "returned" =>
        /\ merged = RegistryOrder(1)
        /\ \A type \in DocumentTypes :
            \A path \in LeafPaths(returned[1], type) :
                \A X \in DOMAIN NodeAt(returned[1][type], path) :
                    /\ Writers(type, path, X) # {}
                    /\ NodeAt(returned[1][type], path)[X] =
                         SanitizedValue(Last(Writers(type, path, X)), X)

\* A returned leaf whose field X was set to different values by an earlier
\* collection A and a later collection B.
C1_Witness ==
    /\ pc = "returned"
    /\ \E type \in DocumentTypes :
        \E path \in LeafPaths(returned[1], type) :
            \E X \in DOMAIN NodeAt(returned[1][type], path) :
                \E i, j \in Writers(type, path, X) :
                    /\ i < j
                    /\ merged[i][1] # merged[j][1]
                    /\ SanitizedValue(i, X) # SanitizedValue(j, X)
                    /\ NodeAt(returned[1][type], path)[X] = SanitizedValue(j, X)

-----------------------------------------------------------------------------
(* C2: field union *)

\* C2: after each document is processed, the leaves of every type are at
\* exactly the key paths of the documents merged so far, and the field names
\* of each leaf are the union of the datapoints of the merged documents that
\* mapped to its path.
C2_FieldUnion ==
    \A type \in DocumentTypes :
        /\ LeafPaths(data, type) =
             {make_key(type, merged[i][2]).keys :
                 i \in {j \in DOMAIN merged : TypeOf(merged[j][1]) = type}}
        /\ \A path \in LeafPaths(data, type) :
             DOMAIN NodeAt(data[type], path) =
               UNION {Datapoints(type, merged[i][2]) :
                         i \in MergedAt(type, path)}

\* A two-level leaf that holds X from one document and Y from a later
\* document that set only Y.
C2_Witness ==
    /\ \E type \in DocumentTypes :
        /\ Depth(type) = 2
        /\ \E path \in LeafPaths(data, type) :
            \E i, j \in MergedAt(type, path) :
                /\ i < j
                /\ Datapoints(type, merged[i][2]) = {"opr"}
                /\ Datapoints(type, merged[j][2]) = {"name"}
                /\ DOMAIN NodeAt(data[type], path) = {"opr", "name"}

\* A leaf that was empty when a later document with datapoints mapped to it.
C2_EmptyLeafWitness ==
    \E type \in DocumentTypes :
        \E path \in LeafPaths(data, type) :
            \E i, j \in MergedAt(type, path) :
                /\ i < j
                /\ Datapoints(type, merged[i][2]) = {}
                /\ \A k \in MergedAt(type, path) : k >= i
                /\ Datapoints(type, merged[j][2]) # {}
                /\ DOMAIN NodeAt(data[type], path) # {}

-----------------------------------------------------------------------------
(* C3: no key leakage *)

\* C3: no leaf of a returned view contains a key field of its type or _id.
C3_NoKeyLeakage ==
    pc = "returned" =>
        \A type \in DocumentTypes :
            \A path \in LeafPaths(returned[1], type) :
                DOMAIN NodeAt(returned[1][type], path)
                    \cap (KeyFields(type) \cup {"_id"}) = {}

\* A returned two-key leaf merged from a document that carried _id.
C3_Witness ==
    /\ pc = "returned"
    /\ \E type \in DocumentTypes :
        /\ Depth(type) = 2
        /\ \E path \in LeafPaths(returned[1], type) :
            /\ DOMAIN NodeAt(returned[1][type], path) # {}
            /\ \E i \in MergedAt(type, path) : "_id" \in DOMAIN merged[i][2]

-----------------------------------------------------------------------------
(* C4, C5: sanitization *)

\* not-a-number, positive infinity or negative infinity
NonFinite(v) == v.t = "float" /\ v.s \in {"nan", "inf", "-inf"}

NotANumber(v) == v.t = "float" /\ v.s = "nan"

\* one of {numeric, string, boolean, null}
Primitive(v) == v.t \in {"int", "float", "str", "bool", "none"}

\* The stored value of field X of the last document that wrote X to a leaf,
\* and the collection that document came from.
Stored(type, path, X) == merged[Last(Writers(type, path, X))][2][X]
Source(type, path, X) == merged[Last(Writers(type, path, X))][1]

\* C4: a field whose stored value is NaN, +inf or -inf is null in the
\* returned leaf, whatever the options.
C4_NonFiniteBecomesNull ==
    pc = "returned" =>
        \A type \in DocumentTypes :
            \A path \in LeafPaths(returned[1], type) :
                \A X \in DOMAIN NodeAt(returned[1][type], path) :
                    NonFinite(Stored(type, path, X)) =>
                        NodeAt(returned[1][type], path)[X] = NoneV

\* The part of C4 the code does keep: a stored NaN is null in the returned
\* leaf, whatever the options.
C4_NanBecomesNull ==
    pc = "returned" =>
        \A type \in DocumentTypes :
            \A path \in LeafPaths(returned[1], type) :
                \A X \in DOMAIN NodeAt(returned[1][type], path) :
                    NotANumber(Stored(type, path, X)) =>
                        NodeAt(returned[1][type], path)[X] = NoneV

\* A returned leaf that still holds an infinity.
C4_InfinityReturned ==
    /\ pc = "returned"
    /\ \E type \in DocumentTypes :
        \E path \in LeafPaths(returned[1], type) :
            \E X \in DOMAIN NodeAt(returned[1][type], path) :
                /\ NodeAt(returned[1][type], path)[X].t = "float"
                /\ NodeAt(returned[1][type], path)[X].s \in {"inf", "-inf"}

\* C5: with use_strings a non-primitive value is returned as its string
\* rendering, unless its field is in ignored_to_string_datapoints or its
\* collection is in ignored_to_string_collections, and then it is returned
\* as stored; without use_strings, and for a primitive value under every
\* option, the value is returned as stored (a NaN as null), never as a string
\* rendering.
C5_SelectiveStringification ==
    pc = "returned" =>
        \A type \in DocumentTypes :
            \A path \in LeafPaths(returned[1], type) :
                \A X \in DOMAIN NodeAt(returned[1][type], path) :
                    LET v      == Stored(type, path, X)
                        out    == NodeAt(returned[1][type], path)[X]
                        exempt ==
                            \/ X \in opts.ignored_to_string_datapoints.items
                            \/ Source(type, path, X)
                                 \in opts.ignored_to_string_collections.items
                        asStored == IF NotANumber(v) THEN out = NoneV
                                    ELSE out = v
                    IN /\ (opts.use_strings /\ ~Primitive(v) /\ ~exempt)
                            => out = StrV(PyStr(v))
                       /\ (opts.use_strings /\ ~Primitive(v) /\ exempt)
                            => out = v
                       /\ ~opts.use_strings => asStored
                       /\ Primitive(v) => asStored

\* A returned leaf, built with use_strings, with one list stringified and
\* another list passed through because its field is exempt.
C5_Witness ==
    /\ pc = "returned"
    /\ opts.use_strings
    /\ \E type \in DocumentTypes :
        \E path \in LeafPaths(returned[1], type) :
            \E X, Y \in DOMAIN NodeAt(returned[1][type], path) :
                /\ Stored(type, path, X).t = "list"
                /\ Stored(type, path, Y).t = "list"
                /\ NodeAt(returned[1][type], path)[X] = StrV("[1, 2]")
                /\ NodeAt(returned[1][type], path)[Y] = ListV(<<1, 2>>)
                /\ Y \in opts.ignored_to_string_datapoints.items

\* A returned leaf, built with use_strings, with a non-primitive value passed
\* through because its collection is exempt.
C5_CollectionWitness ==
    /\ pc = "returned"
    /\ opts.use_strings
    /\ opts.ignored_to_string_datapoints.none
    /\ \E type \in DocumentTypes :
        \E path \in LeafPaths(returned[1], type) :
            \E X \in DOMAIN NodeAt(returned[1][type], path) :
                /\ ~Primitive(Stored(type, path, X))
                /\ NodeAt(returned[1][type], path)[X] = Stored(type, path, X)
                /\ Source(type, path, X)
                     \in opts.ignored_to_string_collections.items

-----------------------------------------------------------------------------
(* C6: collection exclusion *)

\* The database with the ignored collections emptied.
WithoutIgnored ==
    [c \in CollectionNames |-> IF c \in Ignored THEN <<>> ELSE db[c]]

\* C6: a call ends as the call on the database with the ignored collections
\* emptied ends: with the same view returned, or as that call raising; and
\* nothing is merged from, and find() is not called on, an ignored collection.
C6_CollectionExclusion ==
    /\ \A i \in DOMAIN merged : merged[i][1] \notin Ignored
    /\ \A i \in DOMAIN fetched : fetched[i] \notin Ignored
    /\ pc = "returned" =>
         LET other == get_viewer_data(WithoutIgnored, opts)
         IN ~other.raised /\ returned[1] = other.data
    /\ pc = "raised" =>
         LET other == get_viewer_data(WithoutIgnored, opts)
         IN other.raised /\ error = other.error

\* A view returned, with a leaf from another collection of the same type,
\* although an ignored collection holds a document without its key field.
C6_Witness ==
    /\ pc = "returned"
    /\ \E c \in Ignored \cap CollectionNames :
        /\ \E i \in DOMAIN db[c] : make_key(TypeOf(c), db[c][i]).raised
        /\ \E j \in DOMAIN merged : TypeOf(merged[j][1]) = TypeOf(c)
        /\ returned[1][TypeOf(c)] # EmptyDict

\* A view returned without the fields of an ignored collection's document
\* that maps to a leaf another collection of the same type produced.
C6_SameLeafWitness ==
    /\ pc = "returned"
    /\ \E c \in Ignored \cap CollectionNames :
        \E i \in DOMAIN db[c] :
            /\ ~make_key(TypeOf(c), db[c][i]).raised
            /\ Datapoints(TypeOf(c), db[c][i]) # {}
            /\ make_key(TypeOf(c), db[c][i]).keys
                 \in LeafPaths(returned[1], TypeOf(c))
            /\ DOMAIN NodeAt(returned[1][TypeOf(c)],
                             make_key(TypeOf(c), db[c][i]).keys)
                 \cap Datapoints(TypeOf(c), db[c][i]) = {}

-----------------------------------------------------------------------------
(* C7, C8: a document without a key field *)

LacksKey(type, doc) == KeyFields(type) \ DOMAIN doc # {}

\* Some collection that is not ignored holds a document that lacks a key
\* field of its type.
SomeDocumentLacksKey ==
    \E i \in DOMAIN COLLECTIONS :
        /\ COLLECTIONS[i][1] \notin Ignored
        /\ \E k \in DOMAIN db[COLLECTIONS[i][1]] :
            LacksKey(COLLECTIONS[i][2], db[COLLECTIONS[i][1]][k])

\* C7: when a document of a collection that is not ignored lacks a key field,
\* nothing is ever returned, and the call cannot reach its return statement:
\* it ends raising.
C7_MissingKeyAborts ==
    SomeDocumentLacksKey =>
        /\ returned = <<>>
        /\ pc # "returned"
        /\ ~(pc = "loop" /\ cursor = <<>> /\ ci = Len(COLLECTIONS))
        /\ pc = "raised" => error # NoError

\* A call that raised on a document lacking its second key field after it had
\* merged another document, with nothing returned.
C7_Witness ==
    /\ pc = "raised"
    /\ returned = <<>>
    /\ merged # <<>>
    /\ data # EmptyData
    /\ COLLECTION_KEYS[TypeOf(cur[1])][1] \in DOMAIN cur[2]
    /\ COLLECTION_KEYS[TypeOf(cur[1])][2] \notin DOMAIN cur[2]

\* The first key field, in COLLECTION_KEYS order, that the document lacks.
FirstMissing(type, doc) ==
    COLLECTION_KEYS[type][
        CHOOSE i \in DOMAIN COLLECTION_KEYS[type] :
            /\ COLLECTION_KEYS[type][i] \notin DOMAIN doc
            /\ \A j \in 1..(i - 1) : COLLECTION_KEYS[type][j] \in DOMAIN doc]

\* What the exception that left the call names.
Named == {error.args[i] : i \in DOMAIN error.args}

-----------------------------------------------------------------------------
(* C9: output shape *)

IsValue(v) == DOMAIN v = {"t", "n", "s", "l"}

\* The key path of a document: the string renderings of its key-field values
\* in key-field order, alliance_color_is_red as "red" or "blue".
ExpectedPath(type, doc) ==
    [i \in 1..Depth(type) |->
        IF COLLECTION_KEYS[type][i] = "alliance_color_is_red"
        THEN (IF doc["alliance_color_is_red"] = BoolV(TRUE)
              THEN "red" ELSE "blue")
        ELSE PyStr(doc[COLLECTION_KEYS[type][i]])]

\* C9: a returned view has exactly the five document types; under each type
\* the nodes at depth len(COLLECTION_KEYS[type]) are exactly at the key paths
\* of the merged documents of the type, they are leaves (mappings from field
\* to value) and no node above them is empty; the second-level keys under aim
\* are "red" or "blue".
C9_OutputShape ==
    pc = "returned" =>
        /\ DOMAIN returned[1] = {"team", "tim", "aim", "alliance", "auto_paths"}
        /\ \A type \in DocumentTypes :
            /\ LeafPaths(returned[1], type) =
                 {ExpectedPath(type, merged[i][2]) :
                     i \in {j \in DOMAIN merged : TypeOf(merged[j][1]) = type}}
            /\ \A path \in LeafPaths(returned[1], type) :
                 \A X \in DOMAIN NodeAt(returned[1][type], path) :
                     IsValue(NodeAt(returned[1][type], path)[X])
            /\ \A n \in 1..(Depth(type) - 1) :
                 \A path \in PathsAtDepth(returned[1][type], n) :
                     NodeAt(returned[1][type], path) # EmptyDict
        /\ \A k \in DOMAIN returned[1]["aim"] :
             DOMAIN returned[1]["aim"][k] \subseteq {"red", "blue"}

\* A returned view with a red and a blue leaf under one match of aim, and no
\* team.
C9_Witness ==
    /\ pc = "returned"
    /\ returned[1]["team"] = EmptyDict
    /\ \E k \in DOMAIN returned[1]["aim"] :
        DOMAIN returned[1]["aim"][k] = {"red", "blue"}

-----------------------------------------------------------------------------
(* C10: fetch discipline *)

NotIgnored(c) == c \notin Ignored

\* The registry collections that are not ignored, in registry order.
NotIgnoredRegistry ==
    SelectSeq([i \in DOMAIN COLLECTIONS |-> COLLECTIONS[i][1]], NotIgnored)

\* The documents of the collections fetched so far, in fetch order.
RECURSIVE FetchedDocuments(_)
FetchedDocuments(f) ==
    IF f = <<>> THEN <<>>
    ELSE FetchedDocuments(SubSeq(f, 1, Len(f) - 1))
         \o Tag(f[Len(f)], db[f[Len(f)]])

LastFetched == IF fetched = <<>> THEN "" ELSE fetched[Len(fetched)]

\* C10: the collections find() was called on are, in order, an initial part
\* of the registry collections that are not ignored (so none is fetched
\* twice, out of order, or from outside the registry), all of them once the
\* call has returned; and the documents fetched so far are the documents
\* merged plus the rest of the current cursor, so a collection is fetched
\* only after the one before it is merged completely.
C10_FetchDiscipline ==
    /\ IsPrefix(fetched, NotIgnoredRegistry)
    /\ pc = "returned" => fetched = NotIgnoredRegistry
    /\ merged \o Tag(LastFetched, cursor) = FetchedDocuments(fetched)

\* A call that returned after it skipped a collection that holds documents
\* and merged a document of another collection.
C10_Witness ==
    /\ pc = "returned"
    /\ \E c \in Ignored \cap CollectionNames : db[c] # <<>>
    /\ merged # <<>>
    /\ Len(fetched) < Len(COLLECTIONS)

\* A call that returned after it merged documents of two collections.
C10_TwoCollectionsWitness ==
    /\ pc = "returned"
    /\ \E i, j \in DOMAIN merged : merged[i][1] # merged[j][1]

====
